---- MODULE Spec2Model ----
(***************************************************************************)
(* Model of pr-jira-checker-action (src/src/index.js): one run of the      *)
(* action.  run() validates the event context, lists the pull request's    *)
(* commits, extracts ticket identifiers, fetches every identifier from the *)
(* tracker concurrently (Promise.all), groups the fetched issues by Story  *)
(* parent, fetches every Story's children concurrently, renders the report *)
(* and replaces the pull-request description.                              *)
(*                                                                         *)
(* Every await of the source is a step boundary: a pending fetch settles   *)
(* in its own action, and the code that follows the await runs in that     *)
(* action up to the next await.                                            *)
(***************************************************************************)
EXTENDS Integers, Sequences, FiniteSets, TLC

VARIABLES
    ctx,                \* the event context / inputs the run starts with
    jiraTicketPattern,  \* the configured pattern
    pc,                 \* the furthest region of run() reached
    status,             \* "running", "done" (returned) or "failed" (caught)
    commits,            \* data returned by listCommits
    ticketIds,          \* extracted identifiers, first-seen order
    issueTask,          \* per index of ticketIds: state of its fetch
    issueResp,          \* per index: the response the tracker gave
    issueResult,        \* per index: value the getJiraIssueInfo promise holds
    issueDone,          \* indexes of ticketIds in settlement order
    jiraIssuesInfo,     \* what Promise.all delivered at line 117
    storyMap,           \* ordered Map: parent key -> {story, children}
    orphanIssues,
    childTask,          \* per story key: state of its child-list task
    childResult,        \* per story key: what getStoryChildren returned
    childDone,          \* story keys in the order their tasks resumed
    missingChildIssues,
    output,             \* rendered report (sequence of lines)
    issueCalls,         \* keys getJiraIssueInfo was called with
    childCalls,         \* keys getStoryChildren was called with
    updates,            \* bodies passed to pulls.update, in call order
    updateTask,         \* state of the pulls.update call
    failedMsgs,         \* messages passed to core.setFailed, in call order
    notices,            \* messages passed to core.notice
    warnings            \* keys console.warn was called for

vars == <<ctx, jiraTicketPattern, pc, status, commits, ticketIds, issueTask,
          issueResp, issueResult, issueDone, jiraIssuesInfo, storyMap, orphanIssues,
          childTask, childResult, childDone, missingChildIssues, output,
          issueCalls, childCalls, updates, updateTask, failedMsgs, notices,
          warnings>>

----------------------------------------------------------------------------
(* Bounds and the data the environment may supply *)

MaxCommits == 2      \* a listing holds at most this many commits
MaxChildren == 2     \* a child search returns at most this many issues

DefaultPattern == "RC-[^ ]*"
InvalidPattern == "("
Patterns == {DefaultPattern, InvalidPattern}

\* A commit message is a sequence of space-separated words.
TicketWords == {"RC-1", "RC-2"}
Messages == { <<"typo">>, <<"RC-1", "fix">>, <<"RC-2", "also", "RC-1">> }

StoryKeys == {"RC-10", "RC-11"}
ParentTypes == {"Story", "Epic"}
ChildKeys == {"RC-1", "RC-3", "RC-4"}

Contexts == {"ok", "missingInput", "notPullRequest", "noPrNumber"}

NULL == [null |-> TRUE]

SeqsUpTo(S, n) == UNION { [1..m -> S] : m \in 0..n }

CommitLists == SeqsUpTo(Messages, MaxCommits)

Range(s) == { s[i] : i \in 1..Len(s) }

Distinct(s) == \A i, j \in 1..Len(s) : i # j => s[i] # s[j]

\* JSON the tracker may answer GET /issue/<key> with
IssueData ==
    { [issuetype |-> "Task", summary |-> "summary"] } \cup
    { [issuetype |-> "Task", summary |-> "summary",
       parent |-> [key |-> p, issuetype |-> t, summary |-> "parent summary"]] :
         p \in StoryKeys, t \in ParentTypes }

\* JSON the tracker may answer GET /search?jql=parent=<key> with
ChildData ==
    { [ i \in 1..Len(ks) |->
          [key |-> ks[i], issuetype |-> "Task", summary |-> "summary"] ] :
        ks \in { s \in SeqsUpTo(ChildKeys, MaxChildren) : Distinct(s) } }

----------------------------------------------------------------------------
(* Ticket extraction, lines 99-109 *)

RegExpThrows(pattern) == pattern = InvalidPattern

\* message.match(regex) with the g flag: every match, in order; null -> []
Matches(message, pattern) ==
    SelectSeq(message, LAMBDA w : w \in TicketWords)

RECURSIVE Flat(_)
Flat(ss) == IF ss = <<>> THEN <<>> ELSE Head(ss) \o Flat(Tail(ss))

\* [...new Set(xs)]: first occurrence of each element, in order
RECURSIVE Unique(_)
Unique(xs) ==
    IF xs = <<>> THEN <<>>
    ELSE LET init == Unique(SubSeq(xs, 1, Len(xs) - 1))
             last == xs[Len(xs)]
         IN  IF last \in Range(init) THEN init ELSE Append(init, last)

ExtractTicketIds(cs, pattern) ==
    Unique(Flat([ i \in 1..Len(cs) |-> Matches(cs[i], pattern) ]))

\* the RegExp is constructed inside the map callback, once per commit
ExtractThrows(cs, pattern) == Len(cs) > 0 /\ RegExpThrows(pattern)

NoTicketsM(ids) == FALSE

NoTickets(ids) == Len(ids) = 0

----------------------------------------------------------------------------
(* Issue Fetcher and Child Lister: what the code does with a response *)

AttachesParentM(data) == "parent" \in DOMAIN data

\* lines 27-30: a parent is attached only when its type is "Story"
AttachesParent(data) ==
    "parent" \in DOMAIN data /\ data.parent.issuetype = "Story"

\* lines 15-38, for a response that arrived (resp.ok is response.ok)
getJiraIssueInfo(issueKey, resp) ==
    IF ~resp.ok THEN NULL
    ELSE IF AttachesParent(resp.data)
         THEN [key |-> issueKey,
               type |-> resp.data.issuetype,
               title |-> resp.data.summary,
               parent |-> [key |-> resp.data.parent.key,
                           type |-> "Story",
                           title |-> resp.data.parent.summary]]
         ELSE [key |-> issueKey,
               type |-> resp.data.issuetype,
               title |-> resp.data.summary]

\* lines 54-64, for a response that arrived
getStoryChildren(storyKey, resp) ==
    IF ~resp.ok THEN <<>>
    ELSE [ i \in 1..Len(resp.issues) |->
             [key |-> resp.issues[i].key,
              type |-> resp.issues[i].issuetype,
              title |-> resp.issues[i].summary] ]

IssueResponses ==
    { [ok |-> FALSE] } \cup { [ok |-> TRUE, data |-> d] : d \in IssueData }

ChildResponses ==
    { [ok |-> FALSE] } \cup { [ok |-> TRUE, issues |-> c] : c \in ChildData }

FetchError(key) == <<"FetchError", key>>

----------------------------------------------------------------------------
(* Promise.all *)

AllResolvedM(task) == \E i \in DOMAIN task : task[i] = "resolved"

\* Promise.all resolves when every promise has resolved
AllResolved(task) == \A i \in DOMAIN task : task[i] = "resolved"

\* Promise.all rejects as soon as one promise has rejected
SomeRejected(task) == \E i \in DOMAIN task : task[i] = "rejected"

PromiseAllValuesM(results, done) ==
    [ i \in 1..Len(results) |->
        IF i <= Len(done) THEN results[done[i]] ELSE NULL ]

\* the values are delivered by position, whatever the settlement order
PromiseAllValues(results, done) == results

\* the reason of the rejection is that of the first promise that rejected
RECURSIVE FirstRejected(_, _)
FirstRejected(done, task) ==
    IF task[Head(done)] = "rejected" THEN Head(done)
    ELSE FirstRejected(Tail(done), task)

----------------------------------------------------------------------------
(* Aggregator, lines 153-188 *)

FilterBoolean(xs) == SelectSeq(xs, LAMBDA x : x # NULL)

MapHas(m, k) == \E i \in 1..Len(m) : m[i].key = k

MapIndex(m, k) == CHOOSE i \in 1..Len(m) : m[i].key = k

MapKeys(m) == [ i \in 1..Len(m) |-> m[i].key ]

\* the body of the forEach callback, lines 157-168
AddIssue(acc, issue) ==
    IF "parent" \in DOMAIN issue
    THEN LET parentKey == issue.parent.key
             m1 == IF ~MapHas(acc.storyMap, parentKey)
                   THEN Append(acc.storyMap,
                               [key |-> parentKey,
                                story |-> issue.parent,
                                children |-> <<>>])
                   ELSE acc.storyMap
             at == MapIndex(m1, parentKey)
         IN  [storyMap |-> [m1 EXCEPT ![at].children = Append(@, issue)],
              orphanIssues |-> acc.orphanIssues]
    ELSE [storyMap |-> acc.storyMap,
          orphanIssues |-> Append(acc.orphanIssues, issue)]

RECURSIVE GroupIssues(_)
GroupIssues(issues) ==
    IF issues = <<>> THEN [storyMap |-> <<>>, orphanIssues |-> <<>>]
    ELSE AddIssue(GroupIssues(SubSeq(issues, 1, Len(issues) - 1)),
                  issues[Len(issues)])

MissingChildrenM(children, committedIssueKeys) == children

\* lines 183-185
MissingChildren(children, committedIssueKeys) ==
    SelectSeq(children, LAMBDA child : child.key \notin committedIssueKeys)

RECURSIVE Reverse(_)
Reverse(s) == IF s = <<>> THEN <<>> ELSE Append(Reverse(Tail(s)), Head(s))

PushAllM(list, items) == list \o Reverse(items)

\* line 186: one push of all the items
PushAll(list, items) == list \o items

----------------------------------------------------------------------------
(* Report Renderer, lines 150-151 and 190-219 *)

getJiraLink(issueKey) == <<"link", issueKey, "browse", issueKey>>

IssueLine(issue) == <<"-", getJiraLink(issue.key), issue.type, issue.title>>

IssueLines(issues) == [ i \in 1..Len(issues) |-> IssueLine(issues[i]) ]

StoryBlock(data) ==
    << <<"#### Story", getJiraLink(data.story.key), data.story.title>> >>
    \o IssueLines(data.children) \o << <<"">> >>

Render(m, orphans, missing) ==
    << <<"### Related Jira Issues">>, <<"">> >>
    \o Flat([ i \in 1..Len(m) |-> StoryBlock(m[i]) ])
    \o (IF Len(orphans) > 0
        THEN << <<"#### Other Issues">> >> \o IssueLines(orphans) \o << <<"">> >>
        ELSE <<>>)
    \o (IF Len(missing) > 0
        THEN << <<"#### Missing Child Issues">>, <<"The following child issues">>,
                <<"">> >> \o IssueLines(missing)
        ELSE <<>>)

----------------------------------------------------------------------------
(* run(), lines 67-141 *)

Init ==
    /\ ctx \in Contexts
    /\ jiraTicketPattern \in Patterns
    /\ pc = "validate"
    /\ status = "running"
    /\ commits = <<>>
    /\ ticketIds = <<>>
    /\ issueTask = <<>>
    /\ issueResp = <<>>
    /\ issueResult = <<>>
    /\ issueDone = <<>>
    /\ jiraIssuesInfo = <<>>
    /\ storyMap = <<>>
    /\ orphanIssues = <<>>
    /\ childTask = <<>>
    /\ childResult = <<>>
    /\ childDone = <<>>
    /\ missingChildIssues = <<>>
    /\ output = <<>>
    /\ issueCalls = {}
    /\ childCalls = {}
    /\ updates = <<>>
    /\ updateTask = "none"
    /\ failedMsgs = <<>>
    /\ notices = <<>>
    /\ warnings = {}

issueVars == <<issueTask, issueResp, issueResult, issueDone, issueCalls>>
groupVars == <<jiraIssuesInfo, storyMap, orphanIssues>>
childVars == <<childTask, childResult, childDone, childCalls,
               missingChildIssues>>
updateVars == <<output, updates, updateTask>>
inputVars == <<ctx, jiraTicketPattern>>

\* core.setFailed(msg) followed by the end of run()
Fail(msg) ==
    /\ status' = "failed"
    /\ failedMsgs' = Append(failedMsgs, msg)

\* lines 69-72: a required input is missing, getInput throws, line 139
MissingInput ==
    /\ pc = "validate" /\ status = "running" /\ ctx = "missingInput"
    /\ Fail("Input required and not supplied")
    /\ UNCHANGED <<inputVars, pc, commits, ticketIds, issueVars, groupVars,
                   childVars, updateVars, notices, warnings>>

\* lines 80-83
NotPullRequest ==
    /\ pc = "validate" /\ status = "running" /\ ctx = "notPullRequest"
    /\ Fail("This action can only be run on pull request events")
    /\ UNCHANGED <<inputVars, pc, commits, ticketIds, issueVars, groupVars,
                   childVars, updateVars, notices, warnings>>

\* lines 86-90
NoPrNumber ==
    /\ pc = "validate" /\ status = "running" /\ ctx = "noPrNumber"
    /\ Fail("Could not get pull request number from context")
    /\ UNCHANGED <<inputVars, pc, commits, ticketIds, issueVars, groupVars,
                   childVars, updateVars, notices, warnings>>

\* lines 69-96: the context is valid, listCommits is called and awaited
ListCommits ==
    /\ pc = "validate" /\ status = "running" /\ ctx = "ok"
    /\ pc' = "listCommits"
    /\ UNCHANGED <<inputVars, status, commits, ticketIds, issueVars,
                   groupVars, childVars, updateVars, failedMsgs, notices,
                   warnings>>

\* line 93 rejects, line 139
ListCommitsReject ==
    /\ pc = "listCommits" /\ status = "running"
    /\ Fail(<<"HttpError", "listCommits">>)
    /\ UNCHANGED <<inputVars, pc, commits, ticketIds, issueVars, groupVars,
                   childVars, updateVars, notices, warnings>>

\* line 93 resolves with cs; new RegExp throws at line 103, line 139
ExtractFails(cs) ==
    /\ pc = "listCommits" /\ status = "running"
    /\ ExtractThrows(cs, jiraTicketPattern)
    /\ commits' = cs
    /\ pc' = "extract"
    /\ Fail("Invalid regular expression")
    /\ UNCHANGED <<inputVars, ticketIds, issueVars, groupVars, childVars,
                   updateVars, notices, warnings>>

\* line 93 resolves with cs; lines 99-114: nothing extracted
ExtractNothing(cs) ==
    /\ pc = "listCommits" /\ status = "running"
    /\ ~ExtractThrows(cs, jiraTicketPattern)
    /\ NoTickets(ExtractTicketIds(cs, jiraTicketPattern))
    /\ commits' = cs
    /\ ticketIds' = ExtractTicketIds(cs, jiraTicketPattern)
    /\ pc' = "checkEmpty"
    /\ notices' = Append(notices, "No Jira ticket IDs found in commit messages")
    /\ status' = "done"
    /\ UNCHANGED <<inputVars, issueVars, groupVars, childVars, updateVars,
                   failedMsgs, warnings>>

\* line 93 resolves with cs; lines 99-121: every identifier's fetch is issued
FetchIssues(cs) ==
    /\ pc = "listCommits" /\ status = "running"
    /\ ~ExtractThrows(cs, jiraTicketPattern)
    /\ ~NoTickets(ExtractTicketIds(cs, jiraTicketPattern))
    /\ commits' = cs
    /\ ticketIds' = ExtractTicketIds(cs, jiraTicketPattern)
    /\ issueTask' = [ i \in 1..Len(ticketIds') |-> "pending" ]
    /\ issueResp' = [ i \in 1..Len(ticketIds') |-> NULL ]
    /\ issueResult' = [ i \in 1..Len(ticketIds') |-> NULL ]
    /\ issueCalls' = Range(ticketIds')
    /\ pc' = "fetchIssues"
    /\ UNCHANGED <<inputVars, status, issueDone, groupVars, childVars,
                   updateVars, failedMsgs, notices, warnings>>

\* lines 6-38: the fetch of ticketIds[i] is answered
IssueFetchResolve(i, resp) ==
    /\ i \in DOMAIN issueTask /\ issueTask[i] = "pending"
    /\ issueTask' = [issueTask EXCEPT ![i] = "resolved"]
    /\ issueResp' = [issueResp EXCEPT ![i] = resp]
    /\ issueResult' =
         [issueResult EXCEPT ![i] = getJiraIssueInfo(ticketIds[i], resp)]
    /\ issueDone' = Append(issueDone, i)
    /\ warnings' = IF resp.ok THEN warnings
                   ELSE warnings \cup { <<"info", ticketIds[i]>> }
    /\ UNCHANGED <<inputVars, pc, status, commits, ticketIds, issueCalls,
                   groupVars, childVars, updateVars, failedMsgs, notices>>

\* line 6: the tracker is unreachable, fetch rejects
IssueFetchReject(i) ==
    /\ i \in DOMAIN issueTask /\ issueTask[i] = "pending"
    /\ issueTask' = [issueTask EXCEPT ![i] = "rejected"]
    /\ issueDone' = Append(issueDone, i)
    /\ UNCHANGED <<inputVars, pc, status, commits, ticketIds, issueResp,
                   issueResult, issueCalls, groupVars, childVars, updateVars,
                   failedMsgs, notices, warnings>>

\* line 117: Promise.all rejects, line 139
IssuesCatch ==
    /\ pc = "fetchIssues" /\ status = "running"
    /\ SomeRejected(issueTask)
    /\ Fail(FetchError(ticketIds[FirstRejected(issueDone, issueTask)]))
    /\ UNCHANGED <<inputVars, pc, commits, ticketIds, issueVars, groupVars,
                   childVars, updateVars, notices, warnings>>

\* line 117 resolves; lines 124-188 up to the await of the child fetches
Aggregate ==
    /\ pc = "fetchIssues" /\ status = "running"
    /\ AllResolved(issueTask) /\ ~SomeRejected(issueTask)
    /\ jiraIssuesInfo' = PromiseAllValues(issueResult, issueDone)
    /\ LET g == GroupIssues(FilterBoolean(jiraIssuesInfo'))
       IN  /\ storyMap' = g.storyMap
           /\ orphanIssues' = g.orphanIssues
    /\ childTask' = [ i \in 1..Len(storyMap') |-> "pending" ]
    /\ childResult' = [ i \in 1..Len(storyMap') |-> <<>> ]
    /\ childCalls' = Range(MapKeys(storyMap'))
    /\ pc' = "aggregate"
    /\ UNCHANGED <<inputVars, status, commits, ticketIds, issueVars,
                   childDone, missingChildIssues, updateVars, failedMsgs,
                   notices, warnings>>

\* lines 42-64: the child search of the i-th story is answered
ChildFetchResolve(i, resp) ==
    /\ i \in DOMAIN childTask /\ childTask[i] = "pending"
    /\ childTask' = [childTask EXCEPT ![i] = "fetched"]
    /\ childResult' =
         [childResult EXCEPT ![i] = getStoryChildren(storyMap[i].key, resp)]
    /\ warnings' = IF resp.ok THEN warnings
                   ELSE warnings \cup { <<"children", storyMap[i].key>> }
    /\ UNCHANGED <<inputVars, pc, status, commits, ticketIds, issueVars,
                   groupVars, childDone, childCalls, missingChildIssues,
                   updateVars, failedMsgs, notices>>

\* line 42: the tracker is unreachable, fetch rejects
ChildFetchReject(i) ==
    /\ i \in DOMAIN childTask /\ childTask[i] = "pending"
    /\ childTask' = [childTask EXCEPT ![i] = "rejected"]
    /\ childDone' = Append(childDone, i)
    /\ UNCHANGED <<inputVars, pc, status, commits, ticketIds, issueVars,
                   groupVars, childResult, childCalls, missingChildIssues,
                   updateVars, failedMsgs, notices, warnings>>

\* lines 183-186: the i-th story's callback resumes after its await
ChildPush(i) ==
    /\ i \in DOMAIN childTask /\ childTask[i] = "fetched"
    /\ childTask' = [childTask EXCEPT ![i] = "resolved"]
    /\ missingChildIssues' =
         PushAll(missingChildIssues,
                 MissingChildren(childResult[i], Range(ticketIds)))
    /\ childDone' = Append(childDone, i)
    /\ UNCHANGED <<inputVars, pc, status, commits, ticketIds, issueVars,
                   groupVars, childResult, childCalls, updateVars,
                   failedMsgs, notices, warnings>>

\* line 175: Promise.all rejects, line 139
ChildrenCatch ==
    /\ pc = "aggregate" /\ status = "running"
    /\ SomeRejected(childTask)
    /\ Fail(FetchError(storyMap[FirstRejected(childDone, childTask)].key))
    /\ UNCHANGED <<inputVars, pc, commits, ticketIds, issueVars, groupVars,
                   childVars, updateVars, notices, warnings>>

\* line 175 resolves; lines 190-219 and the call of line 133
RenderAndUpdate ==
    /\ pc = "aggregate" /\ status = "running"
    /\ AllResolved(childTask) /\ ~SomeRejected(childTask)
    /\ output' = Render(storyMap, orphanIssues, missingChildIssues)
    /\ updates' = Append(updates, output')
    /\ updateTask' = "pending"
    /\ pc' = "update"
    /\ UNCHANGED <<inputVars, status, commits, ticketIds, issueVars,
                   groupVars, childVars, failedMsgs, notices, warnings>>

\* line 133 resolves; run() returns
UpdateResolve ==
    /\ pc = "update" /\ status = "running" /\ updateTask = "pending"
    /\ updateTask' = "resolved"
    /\ status' = "done"
    /\ UNCHANGED <<inputVars, pc, commits, ticketIds, issueVars, groupVars,
                   childVars, output, updates, failedMsgs, notices, warnings>>

\* line 133 rejects, line 139
UpdateReject ==
    /\ pc = "update" /\ status = "running" /\ updateTask = "pending"
    /\ updateTask' = "rejected"
    /\ Fail(<<"HttpError", "update">>)
    /\ UNCHANGED <<inputVars, pc, commits, ticketIds, issueVars, groupVars,
                   childVars, output, updates, notices, warnings>>

Next ==
    \/ MissingInput
    \/ NotPullRequest
    \/ NoPrNumber
    \/ ListCommits
    \/ ListCommitsReject
    \/ \E cs \in CommitLists : ExtractFails(cs)
    \/ \E cs \in CommitLists : ExtractNothing(cs)
    \/ \E cs \in CommitLists : FetchIssues(cs)
    \/ \E i \in DOMAIN issueTask, resp \in IssueResponses :
         IssueFetchResolve(i, resp)
    \/ \E i \in DOMAIN issueTask : IssueFetchReject(i)
    \/ IssuesCatch
    \/ Aggregate
    \/ \E i \in DOMAIN childTask, resp \in ChildResponses :
         ChildFetchResolve(i, resp)
    \/ \E i \in DOMAIN childTask : ChildFetchReject(i)
    \/ \E i \in DOMAIN childTask : ChildPush(i)
    \/ ChildrenCatch
    \/ RenderAndUpdate
    \/ UpdateResolve
    \/ UpdateReject

Spec == Init /\ [][Next]_vars

----------------------------------------------------------------------------
(* Vocabulary of the properties *)

Committed == Range(ticketIds)

Index(k) == CHOOSE i \in 1..Len(ticketIds) : ticketIds[i] = k

\* the tracker answered the fetch of ticketIds[i] with a success status
Fetched(i) == issueTask[i] = "resolved" /\ issueResp[i].ok

\* the fetch of ticketIds[i] failed: unreachable tracker or non-success status
IssueFetchFailed(i) ==
    \/ issueTask[i] = "rejected"
    \/ issueTask[i] = "resolved" /\ ~issueResp[i].ok

\* the tracker reported a parent of type Story for ticketIds[i]
HasStoryParent(i) ==
    /\ Fetched(i)
    /\ "parent" \in DOMAIN issueResp[i].data
    /\ issueResp[i].data.parent.issuetype = "Story"

ChildFetchFailed(g) ==
    \/ childTask[g] = "rejected"
    \/ <<"children", storyMap[g].key>> \in warnings

\* keys a rendered report links to
KeysIn(report) ==
    { report[n][2][2] : n \in { m \in 1..Len(report) : Len(report[m]) > 1 } }

\* positions (group, child) at which key k sits in the group map
GroupPlaces(k) ==
    { <<g, j>> \in (1..Len(storyMap)) \X (1..Len(ticketIds)) :
        j <= Len(storyMap[g].children) /\ storyMap[g].children[j].key = k }

OrphanPlaces(k) ==
    { j \in 1..Len(orphanIssues) : orphanIssues[j].key = k }

Grouped == pc \in {"aggregate", "update"}

EveryIssueResolved == \A i \in DOMAIN issueTask : issueTask[i] = "resolved"

EveryChildResolved == \A g \in DOMAIN childTask : childTask[g] = "resolved"

NoIssuePending == \A i \in DOMAIN issueTask : issueTask[i] # "pending"

NoChildPending == \A g \in DOMAIN childTask : childTask[g] # "pending"

----------------------------------------------------------------------------
(* C1: when the set of extracted identifiers is empty, no tracker call is
   made, the run ends with one notice and no setFailed, and the description
   update is never issued. *)
C1_EmptyExtraction ==
    (pc \notin {"validate", "listCommits", "extract"} /\ ticketIds = <<>>) =>
        /\ issueCalls = {} /\ childCalls = {}
        /\ updates = <<>> /\ updateTask = "none"
        /\ failedMsgs = <<>>
        /\ status = "done" /\ Len(notices) = 1

C1_Witness ==
    /\ pc = "checkEmpty" /\ status = "done"
    /\ Len(commits) > 0 /\ ticketIds = <<>>

(* C2 as claimed: a failed single-issue fetch (rejected or non-success) never
   fails the run; the key is absent from the report, the other fetched issues
   are used and the update is issued.  Failures of a child-list fetch or of
   the update are set aside. *)
C2_FetchFailureDegrades ==
    \A i \in DOMAIN issueTask :
        ( /\ IssueFetchFailed(i)
          /\ ~SomeRejected(childTask)
          /\ updateTask # "rejected" ) =>
            /\ failedMsgs = <<>>
            /\ status = "done" =>
                 /\ Len(updates) = 1
                 /\ ticketIds[i] \notin KeysIn(output)
                 /\ \A j \in DOMAIN issueTask :
                      Fetched(j) => ticketIds[j] \in KeysIn(output)

(* C3 as claimed: a failed child-list fetch (rejected or non-success) makes
   its group contribute no missing child and never fails the run; the other
   groups' missing children are computed and the update is issued.  Failures
   of the update are set aside. *)
C3_ChildFailureDegrades ==
    \A g \in DOMAIN childTask :
        (ChildFetchFailed(g) /\ updateTask # "rejected") =>
            /\ failedMsgs = <<>>
            /\ childTask[g] = "resolved" => childResult[g] = <<>>
            /\ status = "done" =>
                 /\ Len(updates) = 1
                 /\ \A h \in DOMAIN childTask :
                      \A n \in 1..Len(childResult[h]) :
                         childResult[h][n].key \notin Committed =>
                            childResult[h][n] \in Range(missingChildIssues)

(* C4: after the grouping step every successfully fetched issue sits at
   exactly one place of the group map or the orphan list, never both; it sits
   in a group iff the tracker reported a parent of type Story for it, and
   then in the group keyed by that parent's key; group keys are distinct. *)
C4_Partition ==
    Grouped =>
        /\ Distinct(MapKeys(storyMap))
        /\ \A i \in DOMAIN issueTask :
             Fetched(i) =>
               LET k == ticketIds[i]
               IN  /\ Cardinality(GroupPlaces(k))
                        + Cardinality(OrphanPlaces(k)) = 1
                   /\ (GroupPlaces(k) # {}) <=> HasStoryParent(i)
                   /\ \A pl \in GroupPlaces(k) :
                        storyMap[pl[1]].key = issueResp[i].data.parent.key

C4_Witness ==
    /\ Grouped
    /\ Len(storyMap) = 1 /\ Len(orphanIssues) = 1
    /\ \E i \in DOMAIN issueTask :
         /\ Fetched(i)
         /\ "parent" \in DOMAIN issueResp[i].data
         /\ issueResp[i].data.parent.issuetype = "Epic"

----------------------------------------------------------------------------
(* C5: every entry of the missing-child list was returned by the tracker as
   a child of a story that is the Story parent of a successfully fetched
   committed issue, and its key is not among the extracted identifiers (those
   whose own fetch failed included); child lists are fetched for such stories
   only; and once every child-list fetch has succeeded, every returned child
   whose key was not extracted is in the list. *)
StoryOfFetched(key) ==
    \E i \in DOMAIN issueTask :
        HasStoryParent(i) /\ issueResp[i].data.parent.key = key

C5_MissingChildren ==
    /\ \A key \in childCalls : StoryOfFetched(key)
    /\ \A n \in 1..Len(missingChildIssues) :
         /\ missingChildIssues[n].key \notin Committed
         /\ \E g \in DOMAIN childTask :
              /\ childTask[g] = "resolved"
              /\ missingChildIssues[n] \in Range(childResult[g])
              /\ storyMap[g].key \in childCalls
    /\ ( /\ Grouped
         /\ \A g \in DOMAIN childTask :
              childTask[g] = "resolved" /\ ~ChildFetchFailed(g) ) =>
           \A g \in DOMAIN childTask :
             \A n \in 1..Len(childResult[g]) :
               childResult[g][n].key \notin Committed =>
                  childResult[g][n] \in Range(missingChildIssues)

\* a story returned a missing child and a committed key whose own fetch failed
C5_Witness ==
    /\ Len(missingChildIssues) > 0
    /\ \E g \in DOMAIN childTask, i \in DOMAIN issueTask :
         /\ childTask[g] = "resolved"
         /\ IssueFetchFailed(i)
         /\ \E n \in 1..Len(childResult[g]) :
              childResult[g][n].key = ticketIds[i]

(* C6: the description update is issued at most once, only with every issue
   fetch and every child-list fetch resolved, and not in a run that failed
   before it; setFailed is called at most once, exactly when the run was
   aborted, with the message of the exception; a rejected fetch stops the run
   where it is; nothing settled is started again and a finished run takes no
   further step. *)
C6_State ==
    /\ Len(updates) <= 1
    /\ updates # <<>> =>
         /\ pc = "update"
         /\ EveryIssueResolved /\ EveryChildResolved
         /\ updates[1] = output
    /\ (failedMsgs # <<>> /\ updateTask # "rejected") => updates = <<>>
    /\ Len(failedMsgs) <= 1
    /\ (status = "failed") <=> (Len(failedMsgs) = 1)
    /\ SomeRejected(issueTask) =>
         /\ pc = "fetchIssues" /\ status # "done"
         /\ status = "failed" =>
              \E i \in DOMAIN issueTask :
                 /\ issueTask[i] = "rejected"
                 /\ failedMsgs = << FetchError(ticketIds[i]) >>
    /\ SomeRejected(childTask) =>
         /\ pc = "aggregate" /\ status # "done"
         /\ status = "failed" =>
              \E g \in DOMAIN childTask :
                 /\ childTask[g] = "rejected"
                 /\ failedMsgs = << FetchError(storyMap[g].key) >>
    /\ updateTask = "rejected" =>
         status = "failed" /\ failedMsgs = << <<"HttpError", "update">> >>

C6_Step ==
    /\ status # "running" =>
         /\ status' = status /\ pc' = pc
         /\ failedMsgs' = failedMsgs /\ notices' = notices
         /\ updates' = updates /\ updateTask' = updateTask
         /\ issueCalls' = issueCalls /\ childCalls' = childCalls
    /\ \A i \in DOMAIN issueTask :
         issueTask[i] # "pending" =>
            i \in DOMAIN issueTask' /\ issueTask'[i] = issueTask[i]
    /\ \A g \in DOMAIN childTask :
         childTask[g] \in {"resolved", "rejected"} =>
            g \in DOMAIN childTask' /\ childTask'[g] = childTask[g]
    /\ issueCalls # {} => issueCalls' = issueCalls
    /\ childCalls # {} => childCalls' = childCalls

C6_SingleUpdateSingleFailure == [](C6_State) /\ [][C6_Step]_vars

\* the update was issued after two issue fetches and two child-list fetches
C6_Witness ==
    /\ Len(updates) = 1 /\ status = "done"
    /\ Len(issueTask) = 2 /\ Len(childTask) = 2

\* a run aborted by a rejected fetch while another fetch was still pending
C6_WitnessAbort ==
    /\ status = "failed" /\ Len(failedMsgs) = 1 /\ updates = <<>>
    /\ \E g, h \in DOMAIN childTask :
         childTask[g] = "rejected" /\ childTask[h] = "pending"

----------------------------------------------------------------------------
(* C8 as claimed: the group map, the orphan list and the missing-child list
   change only in steps taken when no fetch of the run is pending. *)
C8_MutationAfterAllFetches ==
    [][ ( \/ storyMap' # storyMap
          \/ orphanIssues' # orphanIssues
          \/ missingChildIssues' # missingChildIssues ) =>
            (NoIssuePending /\ NoChildPending) ]_vars

(* C8 amended: the group map and the orphan list change only in the grouping
   step, when every issue fetch has resolved and no child-list fetch has been
   issued yet; the missing-child list changes only when the task of one group
   resumes after that group's own fetch has resolved, and then by that
   group's missing children alone, whatever the state of the other groups'
   fetches. *)
C8_Step ==
    /\ (storyMap' # storyMap \/ orphanIssues' # orphanIssues) =>
          /\ EveryIssueResolved
          /\ childTask = <<>> /\ childCalls = {}
          /\ missingChildIssues = <<>>
    /\ missingChildIssues' # missingChildIssues =>
          /\ EveryIssueResolved
          /\ \E g \in DOMAIN childTask :
               /\ childTask[g] = "fetched" /\ childTask'[g] = "resolved"
               /\ \A h \in DOMAIN childTask \ {g} : childTask'[h] = childTask[h]
               /\ \E added \in SeqsUpTo(Range(childResult[g]),
                                       Len(childResult[g])) :
                    missingChildIssues' = missingChildIssues \o added

C8_MutationPerTask == [][C8_Step]_vars

\* the list already holds one group's children while another fetch is pending
C8_Witness ==
    /\ Len(missingChildIssues) > 0
    /\ \E g \in DOMAIN childTask : childTask[g] = "pending"

(* C9: the missing-child list is the concatenation, in the order in which the
   groups' tasks resumed, of one contiguous contribution per group, each being
   the group's returned children without the extracted keys, in the order the
   tracker returned them. *)
Pushed == SelectSeq(childDone, LAMBDA g : childTask[g] = "resolved")

Contribution(g) ==
    LET keep == { n \in 1..Len(childResult[g]) :
                    childResult[g][n].key \notin Committed }
        nth(m) == CHOOSE n \in keep : Cardinality({ q \in keep : q < n }) = m - 1
    IN  [ m \in 1..Cardinality(keep) |-> childResult[g][nth(m)] ]

C9_ContiguousContributions ==
    /\ Distinct(childDone)
    /\ missingChildIssues =
         Flat([ n \in 1..Len(Pushed) |-> Contribution(Pushed[n]) ])

\* the second group contributed first, two entries; the first group then
\* contributed one entry of the two children the tracker returned for it
C9_Witness ==
    /\ Len(Pushed) = 2 /\ Pushed[1] = 2
    /\ Len(Contribution(2)) >= 2
    /\ Len(Contribution(1)) = 1 /\ Len(childResult[1]) = 2

(* C10: whatever the order in which the issue fetches settle, groups come in
   the order in which their parent is first met walking the fetched issues in
   extracted-identifier order, the children of each group and the orphans
   come in extracted-identifier order, and every group has a child. *)
Increasing(issues) ==
    \A a, b \in 1..Len(issues) :
        a < b => Index(issues[a].key) < Index(issues[b].key)

C10_OrderIndependent ==
    Grouped =>
        /\ jiraIssuesInfo = issueResult
        /\ Increasing(orphanIssues)
        /\ \A g \in 1..Len(storyMap) :
             /\ Len(storyMap[g].children) >= 1
             /\ Increasing(storyMap[g].children)
             /\ \A c \in 1..Len(storyMap[g].children) :
                  storyMap[g].children[c] = issueResult[Index(storyMap[g].children[c].key)]
        /\ \A n \in 1..Len(orphanIssues) :
             orphanIssues[n] = issueResult[Index(orphanIssues[n].key)]
        /\ \A g, h \in 1..Len(storyMap) :
             g < h => Index(storyMap[g].children[1].key)
                        < Index(storyMap[h].children[1].key)

\* the second identifier's fetch settled first and there are two groups
C10_Witness ==
    /\ Grouped
    /\ Len(issueDone) = 2 /\ issueDone[1] = 2
    /\ Len(storyMap) = 2

\* same, with two children in one group
C10_WitnessChildren ==
    /\ Grouped
    /\ Len(issueDone) = 2 /\ issueDone[1] = 2
    /\ Len(storyMap) = 1 /\ Len(storyMap[1].children) = 2

(* C7 as claimed: a run that reaches ticket extraction with an invalid
   pattern fails with setFailed, whatever the commits; it never ends with the
   notice and never calls the tracker or updates the description. *)
C7_InvalidPatternFails ==
    (RegExpThrows(jiraTicketPattern) /\ pc \notin {"validate", "listCommits"}) =>
        /\ status = "failed" /\ Len(failedMsgs) = 1
        /\ notices = <<>>
        /\ issueCalls = {} /\ childCalls = {} /\ updates = <<>>

====
